---------------------------- MODULE Spec2Model ----------------------------
(***************************************************************************)
(* serde-duration-ext: the TimeUnit enumeration, the DurationUnit parser   *)
(* ("<digits><unit>"), its conversions (as_secs, std::time::Duration) and  *)
(* the serde adapters.                                                     *)
(*                                                                         *)
(* Every operation of the crate is a pure function.  The state machine     *)
(* holds the DurationUnit object most recently built (by new or by a       *)
(* successful parse), the last call with its argument and its outcome, and *)
(* whether the process is still alive: an unwrap() on an Err and an        *)
(* arithmetic overflow under overflow checks abort the calling thread.     *)
(*                                                                         *)
(* Numbers.  TLC's integers are 32 bits wide, the crate's are u64, so a    *)
(* natural number is a little-endian sequence of limbs (bytes) without a   *)
(* leading (most significant) zero; <<>> is zero.  A u64 is such a         *)
(* sequence of at most U64_BYTES limbs.                                    *)
(*                                                                         *)
(* Strings.  A string is a sequence of characters, a character a one-      *)
(* character TLA+ string; "U+0663" stands for the single character         *)
(* ARABIC-INDIC DIGIT THREE, a decimal digit (Unicode class Nd) outside    *)
(* ASCII.                                                                  *)
(***************************************************************************)
EXTENDS Integers, Sequences, FiniteSets, TLC

VARIABLES overflow_checks, pc, du, op, arg, ret

vars == <<overflow_checks, pc, du, op, arg, ret>>

---------------------------------------------------------------------------
(* Natural numbers of any size, as sequences of limbs.                     *)

\* a limb is a byte
Base == 2^8

\* a factor or divisor below Split is applied limb by limb within TLC's
\* integers: (Base - 1) * k + k - 1 < 2^31
Split == 2^23

RECURSIVE Norm(_)
Norm(x) ==
    IF x = <<>> THEN <<>>
    ELSE IF x[Len(x)] = 0 THEN Norm(SubSeq(x, 1, Len(x) - 1))
    ELSE x

\* the limbs of the integer n >= 0
RECURSIVE LimbsOf(_)
LimbsOf(n) == IF n = 0 THEN <<>> ELSE <<n % Base>> \o LimbsOf(n \div Base)

RECURSIVE MulCarry(_, _, _, _)
MulCarry(x, k, i, c) ==
    IF i > Len(x) THEN LimbsOf(c)
    ELSE LET t == x[i] * k + c
         IN  <<t % Base>> \o MulCarry(x, k, i + 1, t \div Base)

\* x * k, for 0 <= k <= 10^9; a factor from Split on is a multiple of 1000
\* and is applied in two steps
NatMul(x, k) ==
    IF k < Split THEN Norm(MulCarry(x, k, 1, 0))
    ELSE Norm(MulCarry(Norm(MulCarry(x, 1000, 1, 0)), k \div 1000, 1, 0))

RECURSIVE AddCarry(_, _, _)
AddCarry(x, i, c) ==
    IF i > Len(x) THEN LimbsOf(c)
    ELSE LET t == x[i] + c
         IN  <<t % Base>> \o AddCarry(x, i + 1, t \div Base)

\* x + d, for 0 <= d <= 10^9
NatAdd(x, d) == Norm(AddCarry(x, 1, d))

\* long division of x by k < Split from the most significant limb i down,
\* with the remainder r and the quotient limbs q so far
RECURSIVE DivLoop(_, _, _, _, _)
DivLoop(x, k, i, r, q) ==
    IF i = 0 THEN [q |-> Norm(q), r |-> r]
    ELSE LET t == r * Base + x[i]
         IN  DivLoop(x, k, i - 1, t % k, <<t \div k>> \o q)

\* quotient and remainder of x by k, for 1 <= k <= 10^9; a divisor from Split
\* on is a multiple of 1000 and is divided out in two steps
NatDivRem(x, k) ==
    IF k < Split THEN DivLoop(x, k, Len(x), 0, <<>>)
    ELSE LET lo == DivLoop(x, 1000, Len(x), 0, <<>>)
             hi == DivLoop(lo.q, k \div 1000, Len(lo.q), 0, <<>>)
         IN  [q |-> hi.q, r |-> hi.r * 1000 + lo.r]

NatDiv(x, k) == NatDivRem(x, k).q

NatRem(x, k) == NatDivRem(x, k).r

RECURSIVE LessFrom(_, _, _)
LessFrom(x, y, i) ==
    IF i = 0 THEN FALSE
    ELSE IF x[i] # y[i] THEN x[i] < y[i]
    ELSE LessFrom(x, y, i - 1)

\* x < y, for normalised x and y
NatLess(x, y) ==
    IF Len(x) # Len(y) THEN Len(x) < Len(y) ELSE LessFrom(x, y, Len(x))

NatLeq(x, y) == x = y \/ NatLess(x, y)

\* the decimal digits of x, most significant first; zero is <<0>>
RECURSIVE DecDigits(_)
DecDigits(x) ==
    LET qr == NatDivRem(x, 10)
    IN  IF qr.q = <<>> THEN <<qr.r>> ELSE Append(DecDigits(qr.q), qr.r)

---------------------------------------------------------------------------
(* u64                                                                     *)

\* size_of::<u64>()
U64_BYTES == 8

Fits64(x) == Len(x) <= U64_BYTES

\* x modulo 2^64
Wrap64(x) == Norm(SubSeq(x, 1, IF Len(x) < U64_BYTES THEN Len(x) ELSE U64_BYTES))

\* u64::MAX
U64_MAX == [i \in 1..U64_BYTES |-> Base - 1]

\* u64 comparison (Ord for u64)
U64_cmp(a, b) ==
    IF a = b THEN "Equal" ELSE IF NatLess(a, b) THEN "Less" ELSE "Greater"

\* mutant of U64_mul: the product saturates at u64::MAX instead of wrapping
U64_mul_saturating(a, k, checks) ==
    LET p == NatMul(a, k)
    IN  IF Fits64(p) THEN [kind |-> "Ok", val |-> p]
        ELSE IF checks THEN [kind |-> "Panic", why |-> "attempt to multiply with overflow"]
        ELSE [kind |-> "Ok", val |-> U64_MAX]

\* a * k on u64.  The product is computed modulo 2^64; with overflow checks
\* (the default of a debug build) an overflowing product panics instead.
U64_mul(a, k, checks) ==
    LET p == NatMul(a, k)
    IN  IF Fits64(p) THEN [kind |-> "Ok", val |-> p]
        ELSE IF checks THEN [kind |-> "Panic", why |-> "attempt to multiply with overflow"]
        ELSE [kind |-> "Ok", val |-> Wrap64(p)]

---------------------------------------------------------------------------
(* Characters and strings                                                  *)

AsciiDigits == {"0", "1", "2", "3", "4", "5", "6", "7", "8", "9"}

DigitChar == <<"0", "1", "2", "3", "4", "5", "6", "7", "8", "9">>

NonAsciiDigits == {"U+0663"}

\* char::to_digit(10): the digit's value, or -1 for None
to_digit(c) ==
    IF c \in AsciiDigits THEN CHOOSE d \in 0..9 : DigitChar[d + 1] = c ELSE 0 - 1

\* the regex class \d: Unicode is on by default, so \d is \p{Nd}
is_regex_digit(c) == c \in AsciiDigits \/ c \in NonAsciiDigits

\* the &str of a sequence of characters
RECURSIVE Str(_)
Str(cs) == IF cs = <<>> THEN "" ELSE Head(cs) \o Str(Tail(cs))

---------------------------------------------------------------------------
(* error.rs                                                                *)

Syntax(msg) == [variant |-> "Syntax", msg |-> msg]

UnitNotSupported(msg) == [variant |-> "UnitNotSupported", msg |-> msg]

StringDoesNotMatchRegex == [variant |-> "StringDoesNotMatchRegex"]

\* impl Display for Error
Error_fmt(e) ==
    CASE e.variant = "Syntax" -> e.msg
      [] e.variant = "UnitNotSupported" -> e.msg
      [] e.variant = "NoUnitProvided" -> "No unit provided"
      [] e.variant = "NoValueProvided" -> "No value provided"
      [] e.variant = "StringDoesNotMatchRegex" -> "String does not match regex"

Ok(v) == [kind |-> "Ok", val |-> v]

Err(e) == [kind |-> "Err", err |-> e]

Panic(why) == [kind |-> "Panic", why |-> why]

---------------------------------------------------------------------------
(* timetunit.rs                                                            *)

\* enum TimeUnit, in declaration order
TimeUnitVariants ==
    <<"Nanosecond", "Microsecond", "Millisecond", "Second",
      "Minute", "Hour", "Day", "Week">>

TimeUnit == {TimeUnitVariants[i] : i \in DOMAIN TimeUnitVariants}

\* the discriminant of a variant: its position in the declaration
discriminant(u) == CHOOSE i \in DOMAIN TimeUnitVariants : TimeUnitVariants[i] = u

\* mutant of TimeUnit_cmp: the operands taken in the wrong order
TimeUnit_cmp_swapped(a, b) ==
    IF discriminant(b) < discriminant(a) THEN "Less"
    ELSE IF discriminant(a) = discriminant(b) THEN "Equal"
    ELSE "Greater"

\* #[derive(PartialOrd, Ord)] on a fieldless enum compares discriminants
TimeUnit_cmp(a, b) ==
    IF discriminant(a) < discriminant(b) THEN "Less"
    ELSE IF discriminant(a) = discriminant(b) THEN "Equal"
    ELSE "Greater"

\* mutant of TimeUnit_from_str: "mins" put in the row of Millisecond
TimeUnit_from_str_mins(s) ==
    CASE s \in {"ns", "nanosecond", "nanos", "nanoseconds"} -> Ok("Nanosecond")
      [] s \in {"us", "microsecond", "micros", "microseconds"} -> Ok("Microsecond")
      [] s \in {"ms", "millisecond", "millis", "milliseconds", "mins"} -> Ok("Millisecond")
      [] s \in {"s", "second", "secs", "seconds"} -> Ok("Second")
      [] s \in {"m", "minute", "minutes"} -> Ok("Minute")
      [] s \in {"h", "hour", "hours"} -> Ok("Hour")
      [] s \in {"d", "day", "days"} -> Ok("Day")
      [] s \in {"w", "week", "weeks"} -> Ok("Week")
      [] OTHER -> Err(UnitNotSupported("Unit '" \o s \o "' not supported"))

\* impl FromStr for TimeUnit; s is a &str
TimeUnit_from_str(s) ==
    CASE s \in {"ns", "nanosecond", "nanos", "nanoseconds"} -> Ok("Nanosecond")
      [] s \in {"us", "microsecond", "micros", "microseconds"} -> Ok("Microsecond")
      [] s \in {"ms", "millisecond", "millis", "milliseconds"} -> Ok("Millisecond")
      [] s \in {"s", "second", "secs", "seconds"} -> Ok("Second")
      [] s \in {"m", "minute", "mins", "minutes"} -> Ok("Minute")
      [] s \in {"h", "hour", "hours"} -> Ok("Hour")
      [] s \in {"d", "day", "days"} -> Ok("Day")
      [] s \in {"w", "week", "weeks"} -> Ok("Week")
      [] OTHER -> Err(UnitNotSupported("Unit '" \o s \o "' not supported"))

---------------------------------------------------------------------------
(* durationunit.rs                                                         *)

SECS_PER_MINUTE == 60

SECS_PER_HOUR == 3600

SECS_PER_DAY == 86400

SECS_PER_WEEK == 604800

NANOS_PER_SEC == 1000000000

MICROS_PER_SEC == 1000000

MILLIS_PER_SEC == 1000

NANOS_PER_MICRO == 1000

NANOS_PER_MILLI == 1000000

\* the alternation of the regex's unit group
ShortCodes == {"ns", "us", "ms", "s", "m", "h", "d", "w"}

\* DURATION_REGEX = ^(?P<value>\d+)(?P<unit>ns|us|ms|s|m|h|d|w){1}$ on the
\* string cs: the set of the lengths i of the value group over all matches (a
\* match splits the whole string into one or more \d and one short code).
DURATION_REGEX_matches(cs) ==
    {i \in 1..Len(cs) :
        /\ \A j \in 1..i : is_regex_digit(cs[j])
        /\ Str(SubSeq(cs, i + 1, Len(cs))) \in ShortCodes}

DURATION_REGEX_is_match(cs) == DURATION_REGEX_matches(cs) # {}

\* Regex::captures: None, or the two named groups
DURATION_REGEX_captures(cs) ==
    IF DURATION_REGEX_matches(cs) = {} THEN [kind |-> "None"]
    ELSE LET i == CHOOSE k \in DURATION_REGEX_matches(cs) : TRUE
         IN  [kind |-> "Some",
              value |-> SubSeq(cs, 1, i),
              unit |-> SubSeq(cs, i + 1, Len(cs))]

\* the digit loop of <u64 as FromStr>::from_str: for each character, the
\* digit (else InvalidDigit), then result * 10 and result + digit, both
\* checked (else PosOverflow)
RECURSIVE from_str_radix_loop(_, _, _)
from_str_radix_loop(cs, i, result) ==
    IF i > Len(cs) THEN Ok(result)
    ELSE LET x   == to_digit(cs[i])
             mul == NatMul(result, 10)
             sum == NatAdd(mul, x)
         IN  IF x < 0 THEN Err("InvalidDigit")
             ELSE IF ~Fits64(mul) THEN Err("PosOverflow")
             ELSE IF ~Fits64(sum) THEN Err("PosOverflow")
             ELSE from_str_radix_loop(cs, i + 1, sum)

\* mutant of u64_from_str: overflow judged by the number of digits
u64_from_str_by_length(cs) ==
    IF cs = <<>> THEN Err("Empty")
    ELSE IF Len(cs) > 19 THEN Err("PosOverflow")
    ELSE from_str_radix_loop(cs, 1, <<>>)

\* str::parse::<u64>() of line 39; the value group holds no sign
u64_from_str(cs) ==
    IF cs = <<>> THEN Err("Empty") ELSE from_str_radix_loop(cs, 1, <<>>)

DurationUnit_new(value, unit) == [value |-> value, unit |-> unit]

\* impl FromStr for DurationUnit
DurationUnit_from_str(cs) ==
    IF DURATION_REGEX_is_match(cs) THEN
        LET caps == DURATION_REGEX_captures(cs)
        IN  IF caps.kind = "None" THEN Err(StringDoesNotMatchRegex)
            ELSE LET value == u64_from_str(caps.value)
                     unit  == TimeUnit_from_str(Str(caps.unit))
                 IN  IF value.kind = "Err"
                         THEN Panic("called Result::unwrap() on an Err value")
                     ELSE IF unit.kind = "Err" THEN Err(unit.err)
                     ELSE Ok([value |-> value.val, unit |-> unit.val])
    ELSE Err(Syntax("Current string is not correct duration unit value"))

DurationUnit_unit(self) == self.unit

\* mutant of DurationUnit_as_secs: Day multiplied by the seconds of an hour
DurationUnit_as_secs_day_as_hour(self, checks) ==
    CASE self.unit = "Nanosecond" -> Ok(NatDiv(self.value, NANOS_PER_SEC))
      [] self.unit = "Microsecond" -> Ok(NatDiv(self.value, MICROS_PER_SEC))
      [] self.unit = "Millisecond" -> Ok(NatDiv(self.value, MILLIS_PER_SEC))
      [] self.unit = "Second" -> Ok(self.value)
      [] self.unit = "Minute" -> U64_mul(self.value, SECS_PER_MINUTE, checks)
      [] self.unit = "Hour" -> U64_mul(self.value, SECS_PER_HOUR, checks)
      [] self.unit = "Day" -> U64_mul(self.value, SECS_PER_HOUR, checks)
      [] self.unit = "Week" -> U64_mul(self.value, SECS_PER_WEEK, checks)

\* DurationUnit::as_secs; checks: whether the build has overflow checks
DurationUnit_as_secs(self, checks) ==
    CASE self.unit = "Nanosecond" -> Ok(NatDiv(self.value, NANOS_PER_SEC))
      [] self.unit = "Microsecond" -> Ok(NatDiv(self.value, MICROS_PER_SEC))
      [] self.unit = "Millisecond" -> Ok(NatDiv(self.value, MILLIS_PER_SEC))
      [] self.unit = "Second" -> Ok(self.value)
      [] self.unit = "Minute" -> U64_mul(self.value, SECS_PER_MINUTE, checks)
      [] self.unit = "Hour" -> U64_mul(self.value, SECS_PER_HOUR, checks)
      [] self.unit = "Day" -> U64_mul(self.value, SECS_PER_DAY, checks)
      [] self.unit = "Week" -> U64_mul(self.value, SECS_PER_WEEK, checks)

\* std::time::Duration: whole seconds (u64) and the nanoseconds below one
Duration_from_nanos(n) ==
    [secs |-> NatDiv(n, NANOS_PER_SEC), nanos |-> NatRem(n, NANOS_PER_SEC)]

\* mutant of Duration_from_micros: the remainder kept in microseconds
Duration_from_micros_unscaled(n) ==
    [secs |-> NatDiv(n, MICROS_PER_SEC), nanos |-> NatRem(n, MICROS_PER_SEC)]

Duration_from_micros(n) ==
    [secs |-> NatDiv(n, MICROS_PER_SEC),
     nanos |-> NatRem(n, MICROS_PER_SEC) * NANOS_PER_MICRO]

Duration_from_millis(n) ==
    [secs |-> NatDiv(n, MILLIS_PER_SEC),
     nanos |-> NatRem(n, MILLIS_PER_SEC) * NANOS_PER_MILLI]

Duration_from_secs(n) == [secs |-> n, nanos |-> 0]

\* Duration::from_secs(value * k)
Duration_from_secs_mul(value, k, checks) ==
    LET p == U64_mul(value, k, checks)
    IN  IF p.kind = "Panic" THEN p ELSE Ok(Duration_from_secs(p.val))

\* impl From<DurationUnit> for std::time::Duration
Duration_from(duration_unit, checks) ==
    CASE duration_unit.unit = "Nanosecond" -> Ok(Duration_from_nanos(duration_unit.value))
      [] duration_unit.unit = "Microsecond" -> Ok(Duration_from_micros(duration_unit.value))
      [] duration_unit.unit = "Millisecond" -> Ok(Duration_from_millis(duration_unit.value))
      [] duration_unit.unit = "Second" -> Ok(Duration_from_secs(duration_unit.value))
      [] duration_unit.unit = "Minute" ->
            Duration_from_secs_mul(duration_unit.value, SECS_PER_MINUTE, checks)
      [] duration_unit.unit = "Hour" ->
            Duration_from_secs_mul(duration_unit.value, SECS_PER_HOUR, checks)
      [] duration_unit.unit = "Day" ->
            Duration_from_secs_mul(duration_unit.value, SECS_PER_DAY, checks)
      [] duration_unit.unit = "Week" ->
            Duration_from_secs_mul(duration_unit.value, SECS_PER_WEEK, checks)

\* #[derive(PartialEq, Eq)] on struct DurationUnit: every field equal
DurationUnit_eq(a, b) == a.value = b.value /\ a.unit = b.unit

\* mutant of DurationUnit_cmp: the unit compared before the value
DurationUnit_cmp_unit_first(a, b) ==
    IF TimeUnit_cmp(a.unit, b.unit) # "Equal" THEN TimeUnit_cmp(a.unit, b.unit)
    ELSE U64_cmp(a.value, b.value)

\* #[derive(PartialOrd, Ord)] on struct DurationUnit: the fields compared in
\* declaration order, value (line 27) before unit (line 28)
DurationUnit_cmp(a, b) ==
    IF U64_cmp(a.value, b.value) # "Equal" THEN U64_cmp(a.value, b.value)
    ELSE TimeUnit_cmp(a.unit, b.unit)

\* a field handed to a serde Deserializer: a string, or a value of another type
StringField(cs) == [type |-> "string", val |-> cs]

OtherField == [type |-> "u64"]

\* String::deserialize
String_deserialize(field) ==
    IF field.type = "string" THEN Ok(field.val)
    ELSE Err([variant |-> "InvalidType", msg |-> "invalid type: expected a string"])

\* mutant of de_Error_custom: the error's variant name for its message
de_Error_custom_variant(e) == [variant |-> "Custom", msg |-> e.variant]

\* serde::de::Error::custom of the deserializer's error type D::Error
de_Error_custom(e) == [variant |-> "Custom", msg |-> Error_fmt(e)]

\* impl Deserialize for DurationUnit
DurationUnit_deserialize(field) ==
    LET s == String_deserialize(field)
    IN  IF s.kind = "Err" THEN s
        ELSE LET r == DurationUnit_from_str(s.val)
             IN  IF r.kind = "Err" THEN Err(de_Error_custom(r.err)) ELSE r

\* lib.rs: pub fn deserialize
deserialize(field, checks) ==
    LET duration_unit == DurationUnit_deserialize(field)
    IN  IF duration_unit.kind # "Ok" THEN duration_unit
        ELSE Duration_from(duration_unit.val, checks)

---------------------------------------------------------------------------
(* The inputs the calls are made with                                      *)

\* the longest string of the exhaustively enumerated inputs
MaxLen == 3

\* new is called with every value 0..MaxSmall, besides the boundary values
MaxSmall == 3

\* the string of the decimal digits ds
Ch(ds) == [i \in DOMAIN ds |-> DigitChar[ds[i] + 1]]

Alphabet == {"0", "7", "m", "s", "n", "h", "-", "U+0663"}

ShortStrings == UNION {[1..n -> Alphabet] : n \in 0..MaxLen}

DigitRuns ==
    { <<>>, Ch(<<0>>), Ch(<<7>>), Ch(<<0, 0, 7>>), Ch(<<1, 0>>), Ch(<<5, 0, 0>>),
      Ch(<<1,8,4,4,6,7,4,4,0,7,3,7,0,9,5,5,1,6,1,5>>),
      Ch(<<1,8,4,4,6,7,4,4,0,7,3,7,0,9,5,5,1,6,1,6>>),
      Ch(<<0,0,0,0,1,8,4,4,6,7,4,4,0,7,3,7,0,9,5,5,1,6,1,5>>),
      Ch(<<1,8,4,4,6,7,4,4,0,7,3,7,0,9,5,5,1,6,1,5,0>>),
      Ch(<<9,9,9,9,9,9,9,9,9,9,9,9,9,9,9,9,9,9,9,9>>),
      Ch(DecDigits(NatDiv(U64_MAX, SECS_PER_WEEK))),
      Ch(DecDigits(NatAdd(NatDiv(U64_MAX, SECS_PER_WEEK), 1))),
      <<"U+0663">>, <<"1", "U+0663">> }

UnitSuffixes ==
    { <<"n", "s">>, <<"u", "s">>, <<"m", "s">>, <<"s">>, <<"m">>, <<"h">>,
      <<"d">>, <<"w">>,
      <<>>, <<"S">>, <<"M", "S">>, <<"n">>, <<"u">>, <<"x">>, <<"s", "s">>,
      <<"s", "e", "c", "o", "n", "d", "s">>, <<"m", "i", "n", "s">>,
      <<"h", "o", "u", "r">>, <<" ", "s">>, <<"s", " ">>, <<"s", "\n">>,
      <<".", "5", "s">>, <<"h", "3", "0", "m">> }

Prefixes == { <<>>, <<" ">>, <<"-">>, <<"+">> }

Inputs ==
    ShortStrings \cup {p \o r \o u : p \in Prefixes, r \in DigitRuns, u \in UnitSuffixes}

Fields == {StringField(cs) : cs \in Inputs} \cup {OtherField}

Aliases ==
    { "ns", "nanosecond", "nanos", "nanoseconds",
      "us", "microsecond", "micros", "microseconds",
      "ms", "millisecond", "millis", "milliseconds",
      "s", "second", "secs", "seconds", "m", "minute", "mins", "minutes",
      "h", "hour", "hours", "d", "day", "days", "w", "week", "weeks" }

Tokens ==
    {p \o a \o q :
        p \in {"", " "},
        a \in Aliases \cup {"", "sec", "min", "hr", "NS", "Seconds", "foo", "nano", "10"},
        q \in {"", "s", "S", " "}}

Thresholds ==
    {NatDiv(U64_MAX, k) :
        k \in {SECS_PER_MINUTE, SECS_PER_HOUR, SECS_PER_DAY, SECS_PER_WEEK}}

Values ==
    {LimbsOf(n) : n \in 0..MaxSmall}
    \cup {LimbsOf(n) : n \in {59, 60, 999, 1000, 1001, 999999, 1000000, 1500000,
                             999999999, 1000000000, 1999999999}}
    \cup Thresholds \cup {NatAdd(x, 1) : x \in Thresholds}
    \cup {U64_MAX, NatDiv(U64_MAX, 2), NatAdd(NatDiv(U64_MAX, 2), 1),
          NatMul(LimbsOf(1000000000), 1000000000)}

Peers == {DurationUnit_new(LimbsOf(n), u) : n \in {1, MaxSmall, 60}, u \in TimeUnit}

---------------------------------------------------------------------------
(* One use of the crate by a caller.  pc is the caller's position: "start" *)
(* (nothing called yet), "holding" (a DurationUnit in hand, du, to call    *)
(* its methods on), "done" (the last call returned and the caller makes no *)
(* further call) and "panicked" (the last call unwound).                   *)

NoDU == [none |-> TRUE]

\* where the caller is after a call that may hand it a DurationUnit
After(r) ==
    CASE r.kind = "Ok" -> "holding"
      [] r.kind = "Err" -> "done"
      [] r.kind = "Panic" -> "panicked"

Init ==
    /\ overflow_checks \in BOOLEAN
    /\ pc = "start"
    /\ du = NoDU
    /\ op = "none"
    /\ arg = <<>>
    /\ ret = [kind |-> "None"]

New(value, unit) ==
    /\ pc = "start"
    /\ du' = DurationUnit_new(value, unit)
    /\ op' = "DurationUnit::new"
    /\ arg' = <<value, unit>>
    /\ ret' = Ok(du')
    /\ pc' = "holding"
    /\ UNCHANGED overflow_checks

TimeUnitFromStr(s) ==
    /\ pc = "start"
    /\ op' = "TimeUnit::from_str"
    /\ arg' = s
    /\ ret' = TimeUnit_from_str(s)
    /\ pc' = "done"
    /\ UNCHANGED <<overflow_checks, du>>

TimeUnitCmp(a, b) ==
    /\ pc = "start"
    /\ op' = "TimeUnit::cmp"
    /\ arg' = <<a, b>>
    /\ ret' = Ok(TimeUnit_cmp(a, b))
    /\ pc' = "done"
    /\ UNCHANGED <<overflow_checks, du>>

FromStr(cs) ==
    /\ pc = "start"
    /\ op' = "DurationUnit::from_str"
    /\ arg' = cs
    /\ ret' = DurationUnit_from_str(cs)
    /\ du' = IF ret'.kind = "Ok" THEN ret'.val ELSE NoDU
    /\ pc' = After(ret')
    /\ UNCHANGED overflow_checks

DeserializeDurationUnit(field) ==
    /\ pc = "start"
    /\ op' = "DurationUnit::deserialize"
    /\ arg' = field
    /\ ret' = DurationUnit_deserialize(field)
    /\ du' = IF ret'.kind = "Ok" THEN ret'.val ELSE NoDU
    /\ pc' = After(ret')
    /\ UNCHANGED overflow_checks

Deserialize(field) ==
    /\ pc = "start"
    /\ op' = "deserialize"
    /\ arg' = field
    /\ ret' = deserialize(field, overflow_checks)
    /\ pc' = IF ret'.kind = "Panic" THEN "panicked" ELSE "done"
    /\ UNCHANGED <<overflow_checks, du>>

Unit ==
    /\ pc = "holding"
    /\ op' = "DurationUnit::unit"
    /\ arg' = du
    /\ ret' = Ok(DurationUnit_unit(du))
    /\ UNCHANGED <<overflow_checks, pc, du>>

AsSecs ==
    /\ pc = "holding"
    /\ op' = "DurationUnit::as_secs"
    /\ arg' = du
    /\ ret' = DurationUnit_as_secs(du, overflow_checks)
    /\ pc' = IF ret'.kind = "Panic" THEN "panicked" ELSE "holding"
    /\ UNCHANGED <<overflow_checks, du>>

\* into() takes the DurationUnit by value
IntoDuration ==
    /\ pc = "holding"
    /\ op' = "Duration::from"
    /\ arg' = du
    /\ ret' = Duration_from(du, overflow_checks)
    /\ du' = NoDU
    /\ pc' = IF ret'.kind = "Panic" THEN "panicked" ELSE "done"
    /\ UNCHANGED overflow_checks

Cmp(other) ==
    /\ pc = "holding"
    /\ op' = "DurationUnit::cmp"
    /\ arg' = <<du, other>>
    /\ ret' = Ok([ord |-> DurationUnit_cmp(du, other), eq |-> DurationUnit_eq(du, other)])
    /\ pc' = "done"
    /\ UNCHANGED <<overflow_checks, du>>

\* the position is tested before the inputs are drawn
Next ==
    \/ pc = "start" /\ \E value \in Values, unit \in TimeUnit : New(value, unit)
    \/ pc = "start" /\ \E s \in Tokens : TimeUnitFromStr(s)
    \/ pc = "start" /\ \E a, b \in TimeUnit : TimeUnitCmp(a, b)
    \/ pc = "start" /\ \E cs \in Inputs : FromStr(cs)
    \/ pc = "start" /\ \E field \in Fields : DeserializeDurationUnit(field)
    \/ pc = "start" /\ \E field \in Fields : Deserialize(field)
    \/ Unit
    \/ AsSecs
    \/ IntoDuration
    \/ pc = "holding" /\ \E other \in Peers : Cmp(other)

Spec == Init /\ [][Next]_vars

---------------------------------------------------------------------------
(* What the claims are stated with: the documented grammar and tables,     *)
(* written out independently of the operators above.                       *)

\* the unit each short code names
CodeUnit(code) ==
    CASE code = "ns" -> "Nanosecond"
      [] code = "us" -> "Microsecond"
      [] code = "ms" -> "Millisecond"
      [] code = "s" -> "Second"
      [] code = "m" -> "Minute"
      [] code = "h" -> "Hour"
      [] code = "d" -> "Day"
      [] code = "w" -> "Week"

Codes == {"ns", "us", "ms", "s", "m", "h", "d", "w"}

\* the places where cs splits into one or more digits in [0-9] and one code
AsciiSplits(cs) ==
    {i \in 1..Len(cs) :
        /\ \A j \in 1..i : cs[j] \in AsciiDigits
        /\ Len(cs) - i \in {1, 2}
        /\ Str(SubSeq(cs, i + 1, Len(cs))) \in Codes}

WellFormed(cs) == AsciiSplits(cs) # {}

DigitsOf(cs) == SubSeq(cs, 1, CHOOSE i \in AsciiSplits(cs) : TRUE)

CodeOf(cs) == Str(SubSeq(cs, 1 + (CHOOSE i \in AsciiSplits(cs) : TRUE), Len(cs)))

\* a digit string as digit values, without its leading zeros ("000" is <<0>>)
RECURSIVE Stripped(_)
Stripped(ds) ==
    IF Len(ds) > 1 /\ ds[1] = "0" THEN Stripped(Tail(ds))
    ELSE [i \in DOMAIN ds |-> CHOOSE d \in 0..9 : DigitChar[d + 1] = ds[i]]

\* the decimal digits of 2^64 - 1
MaxDigits == <<1,8,4,4,6,7,4,4,0,7,3,7,0,9,5,5,1,6,1,5>>

\* a <= b for digit sequences of one length
DecLeq(a, b) ==
    \/ a = b
    \/ \E i \in DOMAIN a : a[i] < b[i] /\ \A j \in 1..(i - 1) : a[j] = b[j]

\* the digit string ds denotes an integer of at most 2^64 - 1
DenotesU64(ds) ==
    \/ Len(Stripped(ds)) < Len(MaxDigits)
    \/ Len(Stripped(ds)) = Len(MaxDigits) /\ DecLeq(Stripped(ds), MaxDigits)

SyntaxMessage == "Current string is not correct duration unit value"

\* the alias table of the standalone unit parser
AliasTable ==
    [Nanosecond  |-> {"ns", "nanosecond", "nanos", "nanoseconds"},
     Microsecond |-> {"us", "microsecond", "micros", "microseconds"},
     Millisecond |-> {"ms", "millisecond", "millis", "milliseconds"},
     Second      |-> {"s", "second", "secs", "seconds"},
     Minute      |-> {"m", "minute", "mins", "minutes"},
     Hour        |-> {"h", "hour", "hours"},
     Day         |-> {"d", "day", "days"},
     Week        |-> {"w", "week", "weeks"}]

\* the documented order of the units
Chain ==
    <<"Nanosecond", "Microsecond", "Millisecond", "Second",
      "Minute", "Hour", "Day", "Week">>

Place(u) == CHOOSE i \in DOMAIN Chain : Chain[i] = u

\* whole seconds in one unit, from Second on
SecondsPer(u) ==
    CASE u = "Second" -> 1
      [] u = "Minute" -> 60
      [] u = "Hour" -> 3600
      [] u = "Day" -> 86400
      [] u = "Week" -> 604800

\* units in one second, below Second
PerSecond(u) ==
    CASE u = "Nanosecond" -> 1000000000
      [] u = "Microsecond" -> 1000000
      [] u = "Millisecond" -> 1000

SubSecond == {"Nanosecond", "Microsecond", "Millisecond"}

\* n of the unit u in nanoseconds
InNanos(n, u) ==
    IF u \in SubSecond THEN NatMul(n, 1000000000 \div PerSecond(u))
    ELSE NatMul(NatMul(n, SecondsPer(u)), 1000000000)

\* value * seconds-per-unit fits in a u64 (below Second it always does)
ProductFits(d) == d.unit \in SubSecond \/ Fits64(NatMul(d.value, SecondsPer(d.unit)))

---------------------------------------------------------------------------
(* The claims                                                              *)

\* C1: a string of one or more ASCII digits denoting n <= 2^64 - 1 (leading
\* zeros allowed) followed by one short code parses to (value = n, unit = the
\* unit the code names); no error is returned.
C1_ValidStringParses ==
    (op = "DurationUnit::from_str" /\ WellFormed(arg) /\ DenotesU64(DigitsOf(arg)))
        => /\ ret.kind = "Ok"
           /\ DecDigits(ret.val.value) = Stripped(DigitsOf(arg))
           /\ ret.val.unit = CodeUnit(CodeOf(arg))
           /\ du = ret.val

\* C1 witness: "000018446744073709551615ms" parsed to (2^64 - 1, Millisecond)
C1_Witness ==
    /\ op = "DurationUnit::from_str"
    /\ arg = Ch(<<0,0,0,0>> \o MaxDigits) \o <<"m", "s">>
    /\ ret = Ok([value |-> U64_MAX, unit |-> "Millisecond"])

\* C2: every string that is not one or more digits in [0-9] followed by one
\* short code is answered with the Syntax error and its fixed message.
C2_MalformedIsSyntaxError ==
    (op = "DurationUnit::from_str" /\ ~WellFormed(arg))
        => ret = Err(Syntax(SyntaxMessage))

\* C3: TimeUnit::from_str maps a token to a unit exactly when the whole token
\* is an alias of the table, every alias of a row to that row's unit, no alias
\* in two rows; any other token fails with UnitNotSupported naming the token.
C3_AliasTable ==
    op = "TimeUnit::from_str"
        => /\ \A u \in TimeUnit : arg \in AliasTable[u] => ret = Ok(u)
           /\ ret.kind = "Ok" => arg \in AliasTable[ret.val]
           /\ (\A u \in TimeUnit : arg \notin AliasTable[u])
                 => ret = Err(UnitNotSupported("Unit '" \o arg \o "' not supported"))
           /\ \A u, v \in TimeUnit : u # v => AliasTable[u] \cap AliasTable[v] = {}

\* C3 witness: the token "Seconds" (an alias but for its case) was refused
C3_Witness ==
    /\ op = "TimeUnit::from_str"
    /\ arg = "Seconds"
    /\ ret.kind = "Err"
    /\ ret.err.variant = "UnitNotSupported"

\* C4: the comparison of units is a strict total order, it is the documented
\* chain Nanosecond < ... < Week, and a < b exactly when one a is a shorter
\* span of time than one b.
C4_UnitOrder ==
    op = "TimeUnit::cmp"
        => LET a == arg[1]
               b == arg[2]
               lt(x, y) == TimeUnit_cmp(x, y) = "Less"
           IN  /\ ret.val \in {"Less", "Equal", "Greater"}
               /\ ret.val = "Equal" <=> a = b
               /\ ret.val = "Greater" <=> lt(b, a)
               /\ ret.val = "Less" <=> lt(a, b)
               /\ ~(lt(a, b) /\ lt(b, a))
               /\ \A c \in TimeUnit : (lt(a, b) /\ lt(b, c)) => lt(a, c)
               /\ ret.val = "Less" <=> Place(a) < Place(b)
               /\ ret.val = "Less"
                    <=> NatLess(InNanos(LimbsOf(1), a), InNanos(LimbsOf(1), b))

\* C4 witness: Day was compared with Week
C4_Witness ==
    /\ op = "TimeUnit::cmp"
    /\ arg = <<"Day", "Week">>
    /\ ret = Ok("Less")

\* C5: when value * seconds-per-unit fits in a u64, as_secs is the floor of
\* value / 10^9, 10^6, 10^3 below Second (0 below one whole second) and
\* value * 1, 60, 3600, 86400, 604800 from Second on.
C5_AsSecs ==
    (op = "DurationUnit::as_secs" /\ ProductFits(arg))
        => /\ ret.kind = "Ok"
           /\ Fits64(ret.val)
           /\ arg.unit \in SubSecond
                => /\ NatLeq(NatMul(ret.val, PerSecond(arg.unit)), arg.value)
                   /\ NatLess(arg.value, NatMul(NatAdd(ret.val, 1), PerSecond(arg.unit)))
                   /\ NatLess(arg.value, LimbsOf(PerSecond(arg.unit))) => ret.val = <<>>
           /\ arg.unit \notin SubSecond
                => ret.val = NatMul(arg.value, SecondsPer(arg.unit))

\* C5 witness: the largest number of weeks whose seconds fit in a u64
C5_Witness ==
    /\ op = "DurationUnit::as_secs"
    /\ arg = [value |-> NatDiv(U64_MAX, 604800), unit |-> "Week"]
    /\ ret.kind = "Ok"

\* C6: when value * seconds-per-unit fits in a u64, the std::time::Duration
\* made of a DurationUnit is exactly value * nanoseconds-per-unit nanoseconds,
\* and its whole seconds are as_secs of the same DurationUnit.
C6_IntoDuration ==
    (op = "Duration::from" /\ ProductFits(arg))
        => /\ ret.kind = "Ok"
           /\ ret.val.nanos \in 0..999999999
           /\ NatAdd(NatMul(ret.val.secs, 1000000000), ret.val.nanos)
                = InNanos(arg.value, arg.unit)
           /\ Ok(ret.val.secs) = DurationUnit_as_secs(arg, overflow_checks)

\* C6 witness: 1500000 microseconds became 1 s and 500000000 ns
C6_Witness ==
    /\ op = "Duration::from"
    /\ arg = [value |-> LimbsOf(1500000), unit |-> "Microsecond"]
    /\ ret = Ok([secs |-> LimbsOf(1), nanos |-> 500000000])

\* C7: deserializing the string field s agrees with DurationUnit::from_str(s):
\* on Ok(d) the adapter yields d and the crate-level deserialize the Duration
\* converted from d; on Err(e) both fail with the custom error carrying e's
\* display message; neither succeeds on a string the parser rejects.
C7_AdapterAgreesWithParse ==
    (op \in {"DurationUnit::deserialize", "deserialize"} /\ arg.type = "string")
        => LET parsed == DurationUnit_from_str(arg.val)
           IN  /\ parsed.kind = "Ok" /\ op = "DurationUnit::deserialize"
                    => ret = Ok(parsed.val) /\ du = parsed.val
               /\ parsed.kind = "Ok" /\ op = "deserialize"
                    => ret = Duration_from(parsed.val, overflow_checks)
               /\ parsed.kind = "Err"
                    => /\ ret = Err([variant |-> "Custom", msg |-> Error_fmt(parsed.err)])
                       /\ ret.err.msg = SyntaxMessage
               /\ parsed.kind # "Ok" => ret.kind # "Ok"

\* C7 witness: the string field "10seconds" was refused by the adapter
C7_Witness ==
    /\ op = "DurationUnit::deserialize"
    /\ arg = StringField(<<"1", "0", "s", "e", "c", "o", "n", "d", "s">>)
    /\ ret.kind = "Err"
    /\ ret.err.variant = "Custom"

\* C8 as claimed: the order on DurationUnits compares the unit first, so every
\* value in a smaller unit sorts before every value in a larger unit.
C8_UnitComparedFirst ==
    (op = "DurationUnit::cmp" /\ Place(arg[1].unit) < Place(arg[2].unit))
        => ret.val.ord = "Less"

\* C8 as amended: the order on DurationUnits is the lexicographic order of the
\* pair with the value compared first and the unit second; two DurationUnits
\* are equal exactly when value and unit both are, so (60, Minute) and
\* (1, Hour), the same span of time, are not equal.
C8_ValueComparedFirst ==
    op = "DurationUnit::cmp"
        => LET a == arg[1]
               b == arg[2]
           IN  /\ ret.val.ord = "Less"
                    <=> \/ NatLess(a.value, b.value)
                        \/ a.value = b.value /\ Place(a.unit) < Place(b.unit)
               /\ ret.val.ord = "Greater"
                    <=> \/ NatLess(b.value, a.value)
                        \/ a.value = b.value /\ Place(b.unit) < Place(a.unit)
               /\ ret.val.ord = "Equal" <=> (a.value = b.value /\ a.unit = b.unit)
               /\ ret.val.eq <=> (a.value = b.value /\ a.unit = b.unit)
               /\ (InNanos(a.value, a.unit) = InNanos(b.value, b.unit) /\ a.unit # b.unit)
                    => ~ret.val.eq

\* C8 witness: (60, Minute) compared with (1, Hour): unequal, and greater
C8_Witness ==
    /\ op = "DurationUnit::cmp"
    /\ arg = <<[value |-> LimbsOf(60), unit |-> "Minute"],
               [value |-> LimbsOf(1), unit |-> "Hour"]>>
    /\ ret = Ok([ord |-> "Greater", eq |-> FALSE])

\* C9: a string of the grammar whose digits denote more than 2^64 - 1 is
\* answered with a Syntax error returned to the caller.
C9_OverflowIsReturned ==
    (op = "DurationUnit::from_str" /\ WellFormed(arg) /\ ~DenotesU64(DigitsOf(arg)))
        => ret.kind = "Err" /\ ret.err.variant = "Syntax"

\* C10 as claimed: when value * seconds-per-unit exceeds 2^64 - 1, as_secs
\* does not fail and returns the product modulo 2^64.
C10_SilentWrap ==
    (op = "DurationUnit::as_secs" /\ ~ProductFits(arg))
        => ret.kind = "Ok" /\ ret.val = Wrap64(NatMul(arg.value, SecondsPer(arg.unit)))

\* C10 as amended: when value * seconds-per-unit exceeds 2^64 - 1, as_secs
\* makes no check of its own: in a build without overflow checks it returns
\* the product modulo 2^64, in a build with overflow checks it panics.
C10_WrapOrPanic ==
    (op = "DurationUnit::as_secs" /\ ~ProductFits(arg))
        => LET product == NatMul(arg.value, SecondsPer(arg.unit))
               low == [i \in 1..U64_BYTES |-> IF i <= Len(ret.val) THEN ret.val[i] ELSE 0]
           IN  /\ arg.unit \in {"Minute", "Hour", "Day", "Week"}
               /\ overflow_checks => ret.kind = "Panic" /\ pc = "panicked"
               /\ ~overflow_checks
                    => /\ ret.kind = "Ok"
                       /\ Fits64(ret.val)
                       /\ low \o SubSeq(product, U64_BYTES + 1, Len(product)) = product

\* C10 witness: 2^64 - 1 weeks in a build without overflow checks
C10_Witness ==
    /\ op = "DurationUnit::as_secs"
    /\ arg = [value |-> U64_MAX, unit |-> "Week"]
    /\ ~overflow_checks
    /\ ret.kind = "Ok"

============================================================================
